---- MODULE Spec2Model ----
(***************************************************************************)
(* A model of the skin-care e-commerce assistant (src/logic.py,            *)
(* src/agents.py, src/app.py).                                             *)
(*                                                                         *)
(* The four relations of the dataset (customers, products, logs, reviews)  *)
(* are pandas DataFrames in the source; here each is a sequence of records *)
(* (one record per row, in row order).  The deterministic functions of     *)
(* logic.py / app.py are operators over these sequences.  Each function is *)
(* exercised by a specification whose initial states draw the dataset and  *)
(* the arguments from bounded sets and whose action applies the function.  *)
(*                                                                         *)
(* Numbers: ratings are whole stars 1..5; avg_rating is kept in tenths     *)
(* (round(x, 1) * 10), avg_rate in hundredths (round(x, 2) * 100) and      *)
(* satisfaction_pct in tenths of a percent.  A number that may be NaN is   *)
(* <<v>>, NaN itself is <<>>.                                              *)
(***************************************************************************)
EXTENDS Integers, Sequences, FiniteSets, TLC

VARIABLES
    customers,            \* DataFrame customers   (logic.py:19, app.py:20)
    products,             \* DataFrame products
    logs,                 \* DataFrame logs
    reviews,              \* DataFrame reviews
    pc,                   \* "call" before the function under study has run, "done" after
    call,                 \* the function applied and its arguments
    ret,                  \* what the function returned
    current_customer,     \* st.session_state.current_customer   (app.py:27)
    search_results,       \* st.session_state.search_results     (app.py:29)
    selected_product_id,  \* st.session_state.selected_product_id (app.py:31)
    parsed_params,        \* st.session_state.parsed_params      (app.py:33)
    last_search_query,    \* st.session_state.last_search_query  (app.py:35)
    cart_added,           \* st.session_state.cart_added         (app.py:37)
    llm_cache,            \* the review_summary_* / cross_msg_* keys of st.session_state
    sent,                 \* requests sent to the text services during the last script run
    view                  \* what the last script run displayed

dataset == <<customers, products, logs, reviews>>
session == <<current_customer, search_results, selected_product_id, parsed_params,
             last_search_query, cart_added, llm_cache, sent, view>>
vars == <<customers, products, logs, reviews, pc, call, ret,
          current_customer, search_results, selected_product_id, parsed_params,
          last_search_query, cart_added, llm_cache, sent, view>>

----------------------------------------------------------------------------
(* Bounds of the model                                                     *)

MaxProducts == 2      \* rows of the catalog drawn for the filter engine
MaxReviews == 6       \* rows of the reviews table drawn for the cohort sampler
MaxStatReviews == 3   \* rows of the reviews table drawn for the aggregates
MaxStatLogs == 2      \* rows of the logs table drawn for the aggregates
MaxLogs == 5          \* rows of the logs table drawn for the co-purchase ranker

----------------------------------------------------------------------------
(* Python values                                                           *)

NONE == "<None>"      \* Python None (a JSON null)
NAN == "<NaN>"        \* pandas NaN (a missing cell)

\* A numeric cell or result that may be missing / NaN: <<>> is NaN, <<v>> is v
NaNNum == <<>>
Num(v) == <<v>>

\* bool(x) of a str-or-missing value: None and "" are falsy, NaN is a truthy float
Truthy(x) == x # NONE /\ x # ""

SeqToSet(s) == {s[i] : i \in DOMAIN s}

IsIn(x, s) == \E i \in DOMAIN s : s[i] = x

SeqsUpTo(S, n) == UNION {[1..k -> S] : k \in 0..n}

RECURSIVE SumOver(_, _)
SumOver(f, S) ==
    IF S = {} THEN 0
    ELSE LET x == CHOOSE y \in S : TRUE IN f[x] + SumOver(f, S \ {x})

\* dict.get(k, default) on a dict modelled as a record
DictGet(d, k, default) == IF k \in DOMAIN d THEN d[k] ELSE default

----------------------------------------------------------------------------
(* Array-valued cells.  A cell of target_skin_types / target_concerns /    *)
(* skin_concerns holds a native list, a JSON text encoding a list, or      *)
(* nothing.  A JSON text is the sequence of its tokens.                    *)

ListCell(items) == [tag |-> "list", val |-> items]
StrCell(text) == [tag |-> "str", val |-> text]
NanCell == [tag |-> "nan", val |-> <<>>]

\* json.dumps of a list of strings, as tokens:  [ a , b ]
JsonDumps(items) ==
    <<"[">> \o
    [i \in 1..(IF Len(items) = 0 THEN 0 ELSE 2 * Len(items) - 1) |->
        IF i % 2 = 1 THEN items[(i + 1) \div 2] ELSE ","] \o
    <<"]">>

\* json.loads of such a text: the items between the brackets, commas dropped
json_loads_list(text) ==
    LET inner == SubSeq(text, 2, Len(text) - 1)
    IN  [i \in 1..((Len(inner) + 1) \div 2) |-> inner[2 * i - 1]]

_to_list(value) ==
    IF value.tag = "list" THEN value.val
    ELSE IF value.tag = "str" THEN json_loads_list(value.val)
    ELSE <<>>

----------------------------------------------------------------------------
(* Rounding.  round(n / d, k) in units of 10^-k, given as Round(n * 10^k,  *)
(* d): Python and numpy round exact halves to the even neighbour.          *)

Round(n, d) ==
    LET q == n \div d
        r == n % d
    IN  IF 2 * r < d THEN q
        ELSE IF 2 * r > d THEN q + 1
        ELSE IF q % 2 = 0 THEN q ELSE q + 1

RECURSIVE SeqSum(_)
SeqSum(s) == IF s = <<>> THEN 0 ELSE Head(s) + SeqSum(Tail(s))

----------------------------------------------------------------------------
(* Stats Aggregator                                                        *)

\* Series.isin(product_ids)
isin(x, ids) == IsIn(x, ids)

\* product_reviews.groupby("product_id").agg(avg_rating=("rate","mean"),
\*   review_count=("rate","count")), avg_rating rounded to 1 decimal.
\* mean and count skip the NaN cells of "rate"; the mean of no cell is NaN.
rating_stats(product_reviews) ==
    [pid \in {product_reviews[i].product_id : i \in DOMAIN product_reviews} |->
        LET grp == SelectSeq(product_reviews, LAMBDA r : r.product_id = pid)
            rated == SelectSeq(grp, LAMBDA r : r.rate # NaNNum)
            rates == [i \in DOMAIN rated |-> rated[i].rate[1]]
        IN  [avg_rating |-> IF Len(rated) = 0 THEN NaNNum
                            ELSE Num(Round(10 * SeqSum(rates), Len(rated))),
             review_count |-> Len(rated)]]

\* logs[logs["action_type"] == "purchase"]
purchase_logs_of(log_rows) == SelectSeq(log_rows, LAMBDA l : l.action_type = "purchase")

\* product_purchases.groupby("product_id").size()
sales_stats(product_purchases) ==
    [pid \in {product_purchases[i].product_id : i \in DOMAIN product_purchases} |->
        Len(SelectSeq(product_purchases, LAMBDA l : l.product_id = pid))]

\* fillna(v) of a numeric cell
fillna(cell, v) == IF cell = NaNNum THEN v ELSE cell[1]

\* The body of system_aggregate_product_stats, over the given reviews and logs tables
aggregate_product_stats_over(products_df, review_rows, log_rows) ==
    IF products_df = <<>> THEN <<>>
    ELSE
    LET product_ids == [i \in DOMAIN products_df |-> products_df[i].product_id]
        product_reviews ==
            SelectSeq(review_rows, LAMBDA r : isin(r.product_id, product_ids))
        rstats == rating_stats(product_reviews)
        purchase_logs == purchase_logs_of(log_rows)
        product_purchases ==
            SelectSeq(purchase_logs, LAMBDA l : isin(l.product_id, product_ids))
        sstats == sales_stats(product_purchases)
        \* left joins: a product without a group gets NaN cells
        merged(p) ==
            [avg_rating |-> IF p.product_id \in DOMAIN rstats
                            THEN rstats[p.product_id].avg_rating ELSE NaNNum,
             review_count |-> IF p.product_id \in DOMAIN rstats
                              THEN Num(rstats[p.product_id].review_count) ELSE NaNNum,
             sales_volume |-> IF p.product_id \in DOMAIN sstats
                              THEN Num(sstats[p.product_id]) ELSE NaNNum]
    IN  [i \in DOMAIN products_df |->
            LET p == products_df[i]
                m == merged(p)
            IN  p @@ [avg_rating |-> fillna(m.avg_rating, 0),
                      review_count |-> fillna(m.review_count, 0),
                      sales_volume |-> fillna(m.sales_volume, 0)]]

system_aggregate_product_stats(products_df) ==
    aggregate_product_stats_over(products_df, reviews, logs)

----------------------------------------------------------------------------
(* Filter Engine                                                           *)

\* 1. category stage
filter_product_type(params, df) ==
    LET product_type == DictGet(params, "product_type", NONE)
    IN  IF Truthy(product_type) /\ product_type # "null"
        THEN SelectSeq(df, LAMBDA p : p.product_type = product_type)
        ELSE df

\* mutant of the skin-type stage: the stage is dropped
filter_skin_type_dropped(customer, df) == df

\* 2. skin-type stage
filter_skin_type(customer, df) ==
    LET skin_type == DictGet(customer, "base_skin_type", NONE)
    IN  IF Truthy(skin_type)
        THEN SelectSeq(df, LAMBDA p : IsIn(skin_type, _to_list(p.target_skin_types)))
        ELSE df

\* mutant of the combination step: intersection instead of union
all_concerns_of_intersection(params, customer) ==
    LET raw_llm == DictGet(params, "concerns", NanCell)
        llm_concerns == IF raw_llm.tag = "list" THEN SeqToSet(raw_llm.val) ELSE {}
        raw_customer_concerns == DictGet(customer, "skin_concerns", ListCell(<<>>))
        customer_concerns == SeqToSet(_to_list(raw_customer_concerns))
    IN  llm_concerns \cap customer_concerns

\* llm_concerns | customer_concerns
all_concerns_of(params, customer) ==
    LET raw_llm == DictGet(params, "concerns", NanCell)
        llm_concerns == IF raw_llm.tag = "list" THEN SeqToSet(raw_llm.val) ELSE {}
        raw_customer_concerns == DictGet(customer, "skin_concerns", ListCell(<<>>))
        customer_concerns == SeqToSet(_to_list(raw_customer_concerns))
    IN  llm_concerns \cup customer_concerns

\* 3. concern stage
filter_concerns(params, customer, df) ==
    LET all_concerns == all_concerns_of(params, customer)
    IN  IF all_concerns # {}
        THEN SelectSeq(df, LAMBDA p :
                 all_concerns \cap SeqToSet(_to_list(p.target_concerns)) # {})
        ELSE df

\* logic.py: the three stages, then the stats merged onto the result
system_filter_products(params, customer) ==
    system_aggregate_product_stats(
        filter_concerns(params, customer,
            filter_skin_type(customer,
                filter_product_type(params, products))))

\* app.py: the same three stages, no stats
app_system_filter_products(params, customer) ==
    filter_concerns(params, customer,
        filter_skin_type(customer,
            filter_product_type(params, products)))

----------------------------------------------------------------------------
(* Cohort Review Sampler                                                   *)

MAX_SAMPLE == 5
MAX_REVIEW_LEN == 300

\* the "..." appended to a truncated review (3 characters)
Ellipsis == <<".", ".", ".">>

\* reviews of product_id written by customers whose base_skin_type == skin_type
cohort_filtered(product_id, skin_type, customer_rows, review_rows) ==
    LET same_type == SelectSeq(customer_rows, LAMBDA c : c.base_skin_type = skin_type)
        same_type_ids == [i \in DOMAIN same_type |-> same_type[i].customer_id]
    IN  SelectSeq(review_rows, LAMBDA r :
            r.product_id = product_id /\ isin(r.customer_id, same_type_ids))

\* total / avg_rate / satisfaction_pct of the filtered reviews.
\* Series.mean() skips NaN and is NaN when nothing is left; NaN >= 4.0 is False.
\* mutant of the metrics: the zero guard on the cohort size is dropped, an
\* empty cohort gets the undefined mean and percentage
review_metrics_unguarded(filtered) ==
    LET total == Len(filtered)
        rated == SelectSeq(filtered, LAMBDA r : r.rate # NaNNum)
        rates == [i \in DOMAIN rated |-> rated[i].rate[1]]
        high_satisfaction == Len(SelectSeq(rated, LAMBDA r : r.rate[1] >= 4))
    IN  [total_reviews |-> total,
         avg_rate |-> IF Len(rated) = 0 THEN NaNNum
                      ELSE Num(Round(100 * SeqSum(rates), Len(rated))),
         satisfaction_pct |-> IF total = 0 THEN NaNNum
                              ELSE Num(Round(1000 * high_satisfaction, total))]

review_metrics(filtered) ==
    LET total == Len(filtered)
        rated == SelectSeq(filtered, LAMBDA r : r.rate # NaNNum)
        rates == [i \in DOMAIN rated |-> rated[i].rate[1]]
        high_satisfaction == Len(SelectSeq(rated, LAMBDA r : r.rate[1] >= 4))
    IN  IF total > 0
        THEN [total_reviews |-> total,
              avg_rate |-> IF Len(rated) = 0 THEN NaNNum
                           ELSE Num(Round(100 * SeqSum(rates), Len(rated))),
              satisfaction_pct |-> Num(Round(1000 * high_satisfaction, total))]
        ELSE [total_reviews |-> 0, avg_rate |-> Num(0), satisfaction_pct |-> Num(0)]

\* filtered.sort_values("created_at", ascending=False): every order of the rows
\* with created_at non-increasing (the default sort is not stable, so rows with
\* equal created_at may come out in any order)
RECURSIVE sort_orders(_, _)
sort_orders(df, left) ==
    IF left = {} THEN {<<>>}
    ELSE LET newest == {i \in left : \A j \in left : df[j].created_at <= df[i].created_at}
         IN  UNION {{<<df[i]>> \o rest : rest \in sort_orders(df, left \ {i})} : i \in newest}

sort_values_created_at_desc(df) == sort_orders(df, DOMAIN df)

\* DataFrame.head(n)
head(df, n) == SubSeq(df, 1, IF Len(df) < n THEN Len(df) ELSE n)

\* mutant of _truncate_review: the cut is taken one character short
_truncate_review_short(text) ==
    IF text = <<>> THEN text
    ELSE IF Len(text[1]) > MAX_REVIEW_LEN
         THEN <<SubSeq(text[1], 1, MAX_REVIEW_LEN - 1) \o Ellipsis>>
         ELSE text

\* a review body is <<>> (NaN) or <<the text>>
_truncate_review(text) ==
    IF text = <<>> THEN text
    ELSE IF Len(text[1]) > MAX_REVIEW_LEN
         THEN <<SubSeq(text[1], 1, MAX_REVIEW_LEN) \o Ellipsis>>
         ELSE text

\* the sample built from one sorted order of the filtered reviews
sample_of(sorted) ==
    LET sampled == head(sorted, MAX_SAMPLE)
    IN  [i \in DOMAIN sampled |->
            [sampled[i] EXCEPT !.review = _truncate_review(sampled[i].review)]]

\* mutant of the sampler: the metrics are computed over the truncated sample
same_skin_reviews_over_sample(product_id, skin_type, customer_rows, review_rows) ==
    LET filtered == cohort_filtered(product_id, skin_type, customer_rows, review_rows)
    IN  {[df |-> sample_of(sorted), metrics |-> review_metrics(sample_of(sorted))] :
            sorted \in sort_values_created_at_desc(filtered)}

\* logic.py: the possible (sampled, metrics) pairs, one per admissible sort order
same_skin_reviews_over(product_id, skin_type, customer_rows, review_rows) ==
    LET filtered == cohort_filtered(product_id, skin_type, customer_rows, review_rows)
        metrics == review_metrics(filtered)
    IN  {[df |-> sample_of(sorted), metrics |-> metrics] :
            sorted \in sort_values_created_at_desc(filtered)}

system_get_same_skin_reviews(product_id, skin_type) ==
    same_skin_reviews_over(product_id, skin_type, customers, reviews)

\* app.py: the same filter and metrics, but the frame returned is the whole
\* filtered set (no sort, no head, no truncation)
app_system_get_same_skin_reviews(product_id, skin_type) ==
    LET filtered == cohort_filtered(product_id, skin_type, customers, reviews)
    IN  [df |-> filtered, metrics |-> review_metrics(filtered)]

----------------------------------------------------------------------------
(* Co-purchase Ranker                                                      *)

\* Series.nlargest(n) of a Series indexed by product_id (ascending, as groupby
\* leaves it): by value descending, equal values in index order (keep="first")
RECURSIVE nlargest(_, _)
nlargest(counts, n) ==
    IF n <= 0 \/ DOMAIN counts = {} THEN <<>>
    ELSE LET best == CHOOSE k \in DOMAIN counts :
                        \A j \in DOMAIN counts :
                            counts[j] < counts[k] \/ (counts[j] = counts[k] /\ k <= j)
         IN  <<best>> \o nlargest([k \in DOMAIN counts \ {best} |-> counts[k]], n - 1)

\* mutant of the ranker: the selected product is not excluded from the co-purchases
cross_sell_products_over_any(selected_id, top_n, product_rows, log_rows) ==
    LET purchase_logs == purchase_logs_of(log_rows)
        bought == SelectSeq(purchase_logs, LAMBDA l : l.product_id = selected_id)
        buyers == [i \in DOMAIN bought |-> bought[i].customer_id]
        co_purchases == SelectSeq(purchase_logs, LAMBDA l : isin(l.customer_id, buyers))
        top_ids == nlargest(sales_stats(co_purchases), top_n)
    IN  IF buyers = <<>> THEN <<>>
        ELSE IF co_purchases = <<>> THEN <<>>
        ELSE SelectSeq(product_rows, LAMBDA p : isin(p.product_id, top_ids))

cross_sell_products_over(selected_id, top_n, product_rows, log_rows) ==
    LET purchase_logs == purchase_logs_of(log_rows)
        bought == SelectSeq(purchase_logs, LAMBDA l : l.product_id = selected_id)
        buyers == [i \in DOMAIN bought |-> bought[i].customer_id]
        co_purchases == SelectSeq(purchase_logs, LAMBDA l :
                            isin(l.customer_id, buyers) /\ l.product_id # selected_id)
        top_ids == nlargest(sales_stats(co_purchases), top_n)
    IN  IF buyers = <<>> THEN <<>>
        ELSE IF co_purchases = <<>> THEN <<>>
        ELSE SelectSeq(product_rows, LAMBDA p : isin(p.product_id, top_ids))

system_get_cross_sell_products(selected_id, top_n) ==
    cross_sell_products_over(selected_id, top_n, products, logs)

----------------------------------------------------------------------------
(* The session before any login (app.py:26-37); an absent value (None) is  *)
(* <<>> and a present value v is <<v>>.                                    *)

\* nothing displayed yet
\* no cached text in st.session_state
EmptyCache == [k \in {} |-> <<>>]

NoView ==
    [detail |-> FALSE, listed |-> <<>>, product_id |-> 0, skin_type |-> NONE,
     metrics |-> [total_reviews |-> 0, avg_rate |-> Num(0), satisfaction_pct |-> Num(0)],
     df |-> <<>>, summary |-> <<>>, cart_button |-> FALSE,
     cross_ids |-> <<>>, cross_msg |-> <<>>, error |-> "none"]

SessionInit ==
    /\ current_customer = <<>>
    /\ search_results = <<>>
    /\ selected_product_id = <<>>
    /\ parsed_params = <<>>
    /\ last_search_query = <<>>
    /\ cart_added = {}
    /\ llm_cache = EmptyCache
    /\ sent = <<>>
    /\ view = NoView

----------------------------------------------------------------------------
(* Inputs of the Filter Engine                                             *)

FilterProductRows ==
    { [product_type |-> "toner", target_skin_types |-> ListCell(<<"dry">>),
       target_concerns |-> ListCell(<<"acne_trouble">>)],
      [product_type |-> "toner", target_skin_types |-> ListCell(<<"oily">>),
       target_concerns |-> ListCell(<<"pores">>)],
      [product_type |-> "serum", target_skin_types |-> ListCell(<<"dry", "oily">>),
       target_concerns |-> ListCell(<<"acne_trouble", "pores">>)],
      [product_type |-> "serum", target_skin_types |-> StrCell(JsonDumps(<<"dry">>)),
       target_concerns |-> StrCell(JsonDumps(<<"pores">>))],
      [product_type |-> "toner", target_skin_types |-> NanCell,
       target_concerns |-> ListCell(<<>>)],
      [product_type |-> "serum", target_skin_types |-> ListCell(<<"oily">>),
       target_concerns |-> NanCell] }

\* a catalog: rows of the pool, product_id = row number
WithIds(rows) == [i \in DOMAIN rows |-> rows[i] @@ [product_id |-> i]]

FilterParams ==
    { [product_type |-> t, concerns |-> c] :
        t \in {NONE, "null", "toner"},
        c \in {ListCell(<<>>), ListCell(<<"acne_trouble">>),
               ListCell(<<"pores", "dullness">>), NanCell} }
    \cup { [product_type |-> "serum"] }

FilterCustomers ==
    { [customer_id |-> 1, base_skin_type |-> t, skin_concerns |-> c] :
        t \in {"dry", "oily", "", NONE, NAN},
        c \in {ListCell(<<>>), ListCell(<<"pores">>),
               StrCell(JsonDumps(<<"acne_trouble">>)), NanCell} }

FilterReviews ==
    << [review_id |-> 1, product_id |-> 1, customer_id |-> 1, rate |-> Num(4)],
       [review_id |-> 2, product_id |-> 1, customer_id |-> 1, rate |-> Num(5)] >>

FilterLogs ==
    << [customer_id |-> 1, product_id |-> 1, action_type |-> "purchase"],
       [customer_id |-> 1, product_id |-> 2, action_type |-> "view"] >>

InitFilter ==
    /\ products \in {WithIds(rows) : rows \in SeqsUpTo(FilterProductRows, MaxProducts)}
    /\ customers = <<>>
    /\ reviews = FilterReviews
    /\ logs = FilterLogs
    /\ pc = "call"
    /\ call \in {[params |-> p, customer |-> c] : p \in FilterParams, c \in FilterCustomers}
    /\ ret = <<>>
    /\ SessionInit

\* logic.system_filter_products(params, customer)
CallFilterLogic ==
    /\ pc = "call"
    /\ pc' = "logic"
    /\ ret' = system_filter_products(call.params, call.customer)
    /\ UNCHANGED <<dataset, call, session>>

\* app.system_filter_products(params, customer)
CallFilterApp ==
    /\ pc = "call"
    /\ pc' = "app"
    /\ ret' = app_system_filter_products(call.params, call.customer)
    /\ UNCHANGED <<dataset, call, session>>

NextFilter == CallFilterLogic \/ CallFilterApp

SpecFilter == InitFilter /\ [][NextFilter]_vars

FilterDone == pc \in {"logic", "app"}

\* the target-skin-type set / target-concern set of a product
TargetSkinTypes(p) == SeqToSet(_to_list(p.target_skin_types))
TargetConcerns(p) == SeqToSet(_to_list(p.target_concerns))

\* C1 (as claimed): for every intent and every customer, a customer whose
\* base_skin_type is missing or empty included, every product in the result
\* of system_filter_products has customer.base_skin_type in its
\* target-skin-type set.
C1_SkinStageUnconditional ==
    FilterDone =>
        \A i \in DOMAIN ret : call.customer.base_skin_type \in TargetSkinTypes(ret[i])

\* C1 (amended): for every intent and every customer whose base_skin_type is
\* a non-empty value, every product in the result of system_filter_products
\* has customer.base_skin_type in its target-skin-type set; for a customer
\* whose base_skin_type is None or "" the stage is skipped: the result is
\* then exactly what the category and concern stages leave of the catalog.
C1_SkinStageWhenPresent ==
    FilterDone =>
        /\ Truthy(call.customer.base_skin_type) =>
             \A i \in DOMAIN ret :
                 call.customer.base_skin_type \in TargetSkinTypes(ret[i])
        /\ ~Truthy(call.customer.base_skin_type) =>
             [i \in DOMAIN ret |-> ret[i].product_id]
               = [i \in DOMAIN filter_concerns(call.params, call.customer,
                                    filter_product_type(call.params, products)) |->
                    filter_concerns(call.params, call.customer,
                        filter_product_type(call.params, products))[i].product_id]

\* C1 witness: the filter has run for a customer with a skin type, kept a
\* product and dropped one that passed the category stage.
C1_Witness ==
    /\ FilterDone
    /\ Truthy(call.customer.base_skin_type)
    /\ Len(ret) > 0
    /\ Len(ret) < Len(filter_concerns(call.params, call.customer,
                         filter_product_type(call.params, products)))

\* what the category and skin-type stages leave of the catalog
PassedEarlierStages ==
    filter_skin_type(call.customer, filter_product_type(call.params, products))

IntentConcerns ==
    IF "concerns" \in DOMAIN call.params /\ call.params.concerns.tag = "list"
    THEN SeqToSet(call.params.concerns.val) ELSE {}

CustomerConcerns == SeqToSet(_to_list(call.customer.skin_concerns))

ResultIds == {ret[i].product_id : i \in DOMAIN ret}

\* C2: effective_concerns is the union of the intent's concerns and the
\* customer's skin concerns; when the union is non-empty a product that
\* passed the earlier stages is kept iff its target-concern set shares an
\* element with the union; when the union is empty the stage excludes nothing.
C2_ConcernUnion ==
    FilterDone =>
        LET effective_concerns == IntentConcerns \cup CustomerConcerns
            passed == PassedEarlierStages
        IN  /\ ResultIds \subseteq {passed[i].product_id : i \in DOMAIN passed}
            /\ \A i \in DOMAIN passed :
                 (passed[i].product_id \in ResultIds) <=>
                     \/ effective_concerns = {}
                     \/ \E c \in effective_concerns : c \in TargetConcerns(passed[i])

\* C2 witness: intent and customer name different concerns, and the stage has
\* kept a product that matches only the customer's concern and dropped another.
C2_Witness ==
    /\ FilterDone
    /\ IntentConcerns # {}
    /\ CustomerConcerns # {}
    /\ IntentConcerns \cap CustomerConcerns = {}
    /\ Len(ret) < Len(PassedEarlierStages)
    /\ \E i \in DOMAIN ret :
         /\ TargetConcerns(ret[i]) \cap IntentConcerns = {}
         /\ TargetConcerns(ret[i]) \cap CustomerConcerns # {}

----------------------------------------------------------------------------
(* The aggregates (Stats Aggregator, cohort metrics, co-purchase counts)   *)
(* over drawn reviews and logs tables, some rows of which reference a      *)
(* customer (9) or a product (9) that does not exist.                      *)

StatCustomers ==
    << [customer_id |-> 1, base_skin_type |-> "dry", skin_concerns |-> ListCell(<<>>)],
       [customer_id |-> 2, base_skin_type |-> "oily", skin_concerns |-> ListCell(<<>>)] >>

StatProducts ==
    WithIds(<< [product_type |-> "toner", target_skin_types |-> ListCell(<<"dry">>),
                target_concerns |-> ListCell(<<"pores">>)],
               [product_type |-> "serum", target_skin_types |-> ListCell(<<"oily">>),
                target_concerns |-> ListCell(<<"pores">>)] >>)

StatReviewRows ==
    { [product_id |-> 1, customer_id |-> 1, rate |-> Num(5)],
      [product_id |-> 1, customer_id |-> 1, rate |-> Num(2)],
      [product_id |-> 1, customer_id |-> 9, rate |-> Num(4)],
      [product_id |-> 2, customer_id |-> 2, rate |-> NaNNum],
      [product_id |-> 9, customer_id |-> 1, rate |-> Num(3)] }

StatLogRows ==
    { [customer_id |-> 1, product_id |-> 1, action_type |-> "purchase"],
      [customer_id |-> 1, product_id |-> 2, action_type |-> "purchase"],
      [customer_id |-> 1, product_id |-> 1, action_type |-> "view"],
      [customer_id |-> 9, product_id |-> 1, action_type |-> "purchase"],
      [customer_id |-> 9, product_id |-> 2, action_type |-> "purchase"],
      [customer_id |-> 1, product_id |-> 9, action_type |-> "purchase"] }

\* a short review body: the characters 1..n
Body(n) == <<[i \in 1..n |-> i % 10]>>

\* rows of the reviews table: review_id and created_at are the row number
StampRows(rows) ==
    [i \in DOMAIN rows |-> rows[i] @@ [review_id |-> i, created_at |-> i, review |-> Body(2)]]

InitAggregates ==
    /\ customers = StatCustomers
    /\ products = StatProducts
    /\ reviews \in {StampRows(rows) : rows \in SeqsUpTo(StatReviewRows, MaxStatReviews)}
    /\ logs \in SeqsUpTo(StatLogRows, MaxStatLogs)
    /\ pc = "call"
    /\ call = <<>>
    /\ ret = <<>>
    /\ SessionInit

\* system_aggregate_product_stats(products_df)
CallAggregate ==
    /\ pc = "call"
    /\ \E products_df \in {<<>>, products, Tail(products)} :
         /\ call' = [products_df |-> products_df]
         /\ ret' = system_aggregate_product_stats(products_df)
    /\ pc' = "stats"
    /\ UNCHANGED <<dataset, session>>

\* system_get_same_skin_reviews(product_id, skin_type)
CallCohort ==
    /\ pc = "call"
    /\ \E product_id \in {1, 2}, skin_type \in {"dry", "oily"} :
         /\ call' = [product_id |-> product_id, skin_type |-> skin_type]
         /\ ret' \in system_get_same_skin_reviews(product_id, skin_type)
    /\ pc' = "cohort"
    /\ UNCHANGED <<dataset, session>>

\* system_get_cross_sell_products(selected_id, top_n)
CallRank ==
    /\ pc = "call"
    /\ \E selected_id \in {1, 2}, top_n \in {1, 2} :
         /\ call' = [selected_id |-> selected_id, top_n |-> top_n]
         /\ ret' = system_get_cross_sell_products(selected_id, top_n)
    /\ pc' = "rank"
    /\ UNCHANGED <<dataset, session>>

NextAggregates == CallAggregate \/ CallCohort \/ CallRank

SpecAggregates == InitAggregates /\ [][NextAggregates]_vars

\* the number of rows of a table that satisfy a test
CountRows(rows, Test(_)) == Cardinality({i \in DOMAIN rows : Test(rows[i])})

\* C3 (as claimed): for every product passed to the Stats Aggregator,
\* review_count is the number of reviews referencing it and sales_volume the
\* number of "purchase" log entries referencing it; a product with no reviews
\* gets avg_rating 0.0 and review_count 0, one with no purchase logs gets
\* sales_volume 0.
C3_StatsCounts ==
    pc = "stats" =>
        /\ Len(ret) = Len(call.products_df)
        /\ \A i \in DOMAIN ret :
             LET pid == call.products_df[i].product_id
                 n_reviews == CountRows(reviews, LAMBDA r : r.product_id = pid)
                 n_purchases == CountRows(logs, LAMBDA l :
                                    l.product_id = pid /\ l.action_type = "purchase")
             IN  /\ ret[i].product_id = pid
                 /\ ret[i].review_count = n_reviews
                 /\ ret[i].sales_volume = n_purchases
                 /\ n_reviews = 0 => ret[i].avg_rating = 0

\* the rows whose customer and product references both resolve
Resolving(rows) ==
    SelectSeq(rows, LAMBDA r :
        /\ \E i \in DOMAIN customers : customers[i].customer_id = r.customer_id
        /\ \E i \in DOMAIN products : products[i].product_id = r.product_id)

\* C4 (as claimed): a review or log entry whose customer or product reference
\* does not resolve contributes to no aggregate: the product stats, the cohort
\* metrics and the co-purchase result are what they are over the tables with
\* those rows left out.
C4_DanglingExcluded ==
    /\ pc = "stats" =>
         ret = aggregate_product_stats_over(call.products_df,
                                            Resolving(reviews), Resolving(logs))
    /\ pc = "cohort" =>
         ret.metrics = review_metrics(cohort_filtered(call.product_id, call.skin_type,
                                                      customers, Resolving(reviews)))
    /\ pc = "rank" =>
         ret = cross_sell_products_over(call.selected_id, call.top_n,
                                        products, Resolving(logs))

----------------------------------------------------------------------------
(* Cohort metrics over a drawn reviews table                               *)

CohortCustomers ==
    << [customer_id |-> 1, base_skin_type |-> "dry", skin_concerns |-> ListCell(<<"pores">>)],
       [customer_id |-> 2, base_skin_type |-> "dry", skin_concerns |-> ListCell(<<>>)],
       [customer_id |-> 3, base_skin_type |-> "oily", skin_concerns |-> ListCell(<<>>)] >>

MetricReviewRows ==
    { [product_id |-> 1, customer_id |-> 1, rate |-> Num(5)],
      [product_id |-> 1, customer_id |-> 2, rate |-> Num(4)],
      [product_id |-> 1, customer_id |-> 1, rate |-> Num(3)],
      [product_id |-> 1, customer_id |-> 1, rate |-> NaNNum],
      [product_id |-> 1, customer_id |-> 3, rate |-> Num(5)] }

InitCohortMetrics ==
    /\ customers = CohortCustomers
    /\ products = StatProducts
    /\ reviews \in {StampRows(rows) : rows \in SeqsUpTo(MetricReviewRows, MaxReviews)}
    /\ logs = <<>>
    /\ pc = "call"
    /\ call = <<>>
    /\ ret = <<>>
    /\ SessionInit

\* system_get_same_skin_reviews(product_id, skin_type)
CallCohortMetrics ==
    /\ pc = "call"
    /\ \E args \in {<<1, "dry">>, <<1, "oily">>, <<2, "dry">>} :
         /\ call' = [product_id |-> args[1], skin_type |-> args[2]]
         /\ ret' \in system_get_same_skin_reviews(args[1], args[2])
    /\ pc' = "cohort"
    /\ UNCHANGED <<dataset, session>>

SpecCohortMetrics == InitCohortMetrics /\ [][CallCohortMetrics]_vars

\* the base skin type of the customer a review references (customer ids are unique)
SkinTypeOf(customer_id) ==
    LET c == CHOOSE c \in SeqToSet(customers) : c.customer_id = customer_id
    IN  c.base_skin_type

\* the rows of the reviews table that belong to the cohort-filtered set of the call
CohortRows ==
    {i \in DOMAIN reviews :
        /\ reviews[i].product_id = call.product_id
        /\ \E c \in SeqToSet(customers) : c.customer_id = reviews[i].customer_id
        /\ SkinTypeOf(reviews[i].customer_id) = call.skin_type}

RatedCohortRows == {i \in CohortRows : reviews[i].rate # NaNNum}

HighCohortRows == {i \in RatedCohortRows : reviews[i].rate[1] >= 4}

RateSum(rows) == SumOver([i \in rows |-> reviews[i].rate[1]], rows)

\* C5 (as claimed): the mean rating and the satisfaction percentage are
\* computed over the reviews with a non-null rating only (the percentage's
\* denominator is the number of non-null ratings), and for every cohort, an
\* empty one and one whose ratings are all null included, both are defined
\* numbers (0 when there is nothing to average), never NaN.
C5_MetricsOverNonNull ==
    pc = "cohort" =>
        /\ ret.metrics.avg_rate # NaNNum
        /\ ret.metrics.satisfaction_pct # NaNNum
        /\ ret.metrics.avg_rate =
             IF RatedCohortRows = {} THEN Num(0)
             ELSE Num(Round(100 * RateSum(RatedCohortRows), Cardinality(RatedCohortRows)))
        /\ ret.metrics.satisfaction_pct =
             IF RatedCohortRows = {} THEN Num(0)
             ELSE Num(Round(1000 * Cardinality(HighCohortRows),
                            Cardinality(RatedCohortRows)))

\* the ratings of the cohort-filtered set, in table order
CohortRates ==
    LET rows == SelectSeq(reviews, LAMBDA r : r.review_id \in CohortRows)
    IN  [i \in DOMAIN rows |-> rows[i].rate]

\* C6: the metrics are computed over the full cohort-filtered set, not the
\* sample: total_reviews is the number of reviews of productId whose customer
\* has base_skin_type skinType, also when it exceeds 5, and satisfaction_pct
\* is the share (in percent, 1 decimal) of those reviews rated >= 4.0;
\* ratings [5,5,3,4] give satisfaction_pct 75.0 (and avg_rate 4.25).
C6_MetricsOverFullCohort ==
    pc = "cohort" =>
        /\ ret.metrics.total_reviews = Cardinality(CohortRows)
        /\ CohortRows # {} =>
             ret.metrics.satisfaction_pct =
                 Num(Round(1000 * Cardinality(HighCohortRows), Cardinality(CohortRows)))
        /\ CohortRates = <<Num(5), Num(5), Num(3), Num(4)>> =>
             /\ ret.metrics.satisfaction_pct = Num(750)
             /\ ret.metrics.avg_rate = Num(425)

\* C6 witness: the sampler has run on a cohort-filtered set of more than 5
\* reviews, not all of them rated >= 4.0, and returned a sample of 5.
C6_Witness ==
    /\ pc = "cohort"
    /\ Cardinality(CohortRows) > MAX_SAMPLE
    /\ Len(ret.df) = MAX_SAMPLE
    /\ HighCohortRows # {}
    /\ HighCohortRows # CohortRows

----------------------------------------------------------------------------
(* The sample over a drawn reviews table: creation timestamps out of table *)
(* order and with ties, bodies absent, short, of exactly MAX_REVIEW_LEN    *)
(* characters and longer.                                                  *)

SampleReviewRows ==
    { [customer_id |-> 1, late |-> 0, review |-> Body(MAX_REVIEW_LEN + 1)],
      [customer_id |-> 2, late |-> 1, review |-> Body(MAX_REVIEW_LEN)],
      [customer_id |-> 1, late |-> 1, review |-> <<>>],
      [customer_id |-> 3, late |-> 0, review |-> Body(2)] }

\* a scrambled clock: the rows of the table are not in creation order
Scramble(i) == (3 * i) % 8

\* rows of the reviews table for product 1: review_id is the row number; a
\* "late" row was created one tick before its slot, which may tie it with
\* the row of the previous slot
NumberRows(rows) ==
    [i \in DOMAIN rows |->
        [review_id |-> i, product_id |-> 1, customer_id |-> rows[i].customer_id,
         rate |-> Num(4), review |-> rows[i].review,
         created_at |-> Scramble(i) - rows[i].late]]

InitCohortSample ==
    /\ customers = CohortCustomers
    /\ products = StatProducts
    /\ reviews \in {NumberRows(rows) : rows \in SeqsUpTo(SampleReviewRows, MaxReviews)}
    /\ logs = <<>>
    /\ pc = "call"
    /\ call = <<>>
    /\ ret = <<>>
    /\ SessionInit

\* system_get_same_skin_reviews(product_id, skin_type)
CallCohortSample ==
    /\ pc = "call"
    /\ \E args \in {<<1, "dry">>, <<1, "oily">>} :
         /\ call' = [product_id |-> args[1], skin_type |-> args[2]]
         /\ ret' \in system_get_same_skin_reviews(args[1], args[2])
    /\ pc' = "sample"
    /\ UNCHANGED <<dataset, session>>

SpecCohortSample == InitCohortSample /\ [][CallCohortSample]_vars

SampledIds == {ret.df[i].review_id : i \in DOMAIN ret.df}

\* C7: for a cohort-filtered set of n reviews the sample has exactly
\* min(n, 5) entries, they are the newest ones by creation timestamp, ordered
\* newest-first, and every body longer than 300 characters is replaced by its
\* first 300 characters followed by a 3-character ellipsis, while bodies of
\* at most 300 characters are unchanged.
C7_SampleBounded ==
    pc = "sample" =>
        LET n == Cardinality(CohortRows)
            df == ret.df
        IN  /\ Len(df) = IF n < 5 THEN n ELSE 5
            /\ SampledIds \subseteq CohortRows
            /\ Cardinality(SampledIds) = Len(df)
            /\ \A i, j \in DOMAIN df : i < j => df[i].created_at >= df[j].created_at
            /\ \A i \in DOMAIN df : \A k \in CohortRows \ SampledIds :
                   reviews[k].created_at <= df[i].created_at
            /\ \A i \in DOMAIN df :
                 LET orig == reviews[df[i].review_id]
                 IN  /\ df[i].created_at = orig.created_at
                     /\ IF orig.review # <<>> /\ Len(orig.review[1]) > 300
                        THEN /\ df[i].review # <<>>
                             /\ Len(df[i].review[1]) = 300 + 3
                             /\ SubSeq(df[i].review[1], 1, 300) = SubSeq(orig.review[1], 1, 300)
                             /\ SubSeq(df[i].review[1], 301, 303) = Ellipsis
                        ELSE df[i].review = orig.review

\* C7 witness: more than 5 cohort reviews, some with equal timestamps; the
\* sample holds a truncated body and an untouched body of exactly 300 characters.
C7_Witness ==
    /\ pc = "sample"
    /\ Cardinality(CohortRows) > 5
    /\ \E i \in DOMAIN ret.df :
         /\ reviews[ret.df[i].review_id].review # <<>>
         /\ Len(reviews[ret.df[i].review_id].review[1]) > 300
    /\ \E i \in DOMAIN ret.df :
         /\ ret.df[i].review # <<>>
         /\ Len(ret.df[i].review[1]) = 300
    /\ \E i \in CohortRows \ SampledIds : \E j \in DOMAIN ret.df :
         reviews[i].created_at = ret.df[j].created_at

----------------------------------------------------------------------------
(* The Co-purchase Ranker over a drawn logs table and catalog order        *)

RankProductRows ==
    << [product_type |-> "toner", target_skin_types |-> ListCell(<<"dry">>),
        target_concerns |-> ListCell(<<"pores">>)],
       [product_type |-> "serum", target_skin_types |-> ListCell(<<"dry">>),
        target_concerns |-> ListCell(<<"pores">>)],
       [product_type |-> "essence", target_skin_types |-> ListCell(<<"oily">>),
        target_concerns |-> ListCell(<<"pores">>)] >>

\* the catalog with its rows in the given order of product ids
CatalogInOrder(ids) == [i \in DOMAIN ids |-> RankProductRows[ids[i]] @@ [product_id |-> ids[i]]]

RankCatalogOrders == {<<1, 2, 3>>, <<3, 2, 1>>, <<2, 3, 1>>}

RankLogRows ==
    { [customer_id |-> 1, product_id |-> 1, action_type |-> "purchase"],
      [customer_id |-> 1, product_id |-> 2, action_type |-> "purchase"],
      [customer_id |-> 1, product_id |-> 3, action_type |-> "purchase"],
      [customer_id |-> 2, product_id |-> 2, action_type |-> "purchase"],
      [customer_id |-> 1, product_id |-> 3, action_type |-> "view"] }

InitRank ==
    /\ customers = CohortCustomers
    /\ products \in {CatalogInOrder(ids) : ids \in RankCatalogOrders}
    /\ reviews = <<>>
    /\ logs \in SeqsUpTo(RankLogRows, MaxLogs)
    /\ pc = "call"
    /\ call = <<>>
    /\ ret = <<>>
    /\ SessionInit

\* system_get_cross_sell_products(selected_id, top_n)
CallCrossSell ==
    /\ pc = "call"
    /\ \E args \in {<<1, 1>>, <<1, 2>>, <<2, 2>>} :
         /\ call' = [selected_id |-> args[1], top_n |-> args[2]]
         /\ ret' = system_get_cross_sell_products(args[1], args[2])
    /\ pc' = "rank"
    /\ UNCHANGED <<dataset, session>>

SpecRank == InitRank /\ [][CallCrossSell]_vars

\* the customers with a "purchase" entry for the selected product
Buyers ==
    {logs[i].customer_id : i \in {j \in DOMAIN logs :
        logs[j].action_type = "purchase" /\ logs[j].product_id = call.selected_id}}

\* the co-purchase count of a product: "purchase" entries for it by the buyers
CoPurchaseCount(product_id) ==
    IF product_id = call.selected_id THEN 0
    ELSE Cardinality({i \in DOMAIN logs :
            /\ logs[i].action_type = "purchase"
            /\ logs[i].product_id = product_id
            /\ logs[i].customer_id \in Buyers})

\* C10 (as claimed): the ranker returns the topN co-purchased products ordered
\* by descending co-purchase count, for any logs and any catalog order: a
\* product with a strictly higher count never appears after one with a lower
\* count (B bought 3 times and C 2 times come out as [B, C]).
C10_RankedByCount ==
    pc = "rank" =>
        /\ \A i, j \in DOMAIN ret :
             i < j => CoPurchaseCount(ret[i].product_id) >= CoPurchaseCount(ret[j].product_id)
        /\ \A i \in DOMAIN ret : \A k \in DOMAIN products :
             (\A j \in DOMAIN ret : ret[j].product_id # products[k].product_id) =>
                 CoPurchaseCount(products[k].product_id) <= CoPurchaseCount(ret[i].product_id)

----------------------------------------------------------------------------
(* Texts.  A text (a query, a service response) is the sequence of its     *)
(* tokens: whitespace, a code fence, a word, or a JSON document.           *)

SP == [t |-> "ws", v |-> " "]
NL == [t |-> "ws", v |-> "\n"]
\* the three-backquote code fence
Fence == [t |-> "fence", v |-> "fence"]
Word(w) == [t |-> "word", v |-> w]
Json(name) == [t |-> "json", v |-> name]

RECURSIVE lstrip(_)
lstrip(text) == IF text # <<>> /\ Head(text).t = "ws" THEN lstrip(Tail(text)) ELSE text

RECURSIVE rstrip(_)
rstrip(text) ==
    IF text # <<>> /\ text[Len(text)].t = "ws"
    THEN rstrip(SubSeq(text, 1, Len(text) - 1)) ELSE text

\* str.strip()
strip(text) == rstrip(lstrip(text))

\* raw.split(fence)
RECURSIVE split_fence(_)
split_fence(text) ==
    IF \A i \in DOMAIN text : text[i] # Fence THEN <<text>>
    ELSE LET i == CHOOSE k \in DOMAIN text :
                      text[k] = Fence /\ \A j \in 1..(k - 1) : text[j] # Fence
         IN  <<SubSeq(text, 1, i - 1)>> \o split_fence(SubSeq(text, i + 1, Len(text)))

\* the value of a JSON document the intent service may answer with
IntentPayload(name) ==
    IF name = "toner" THEN [product_type |-> "toner", concerns |-> ListCell(<<>>)]
    ELSE IF name = "pores" THEN [product_type |-> NONE, concerns |-> ListCell(<<"pores">>)]
    ELSE IF name = "concerns_only" THEN [concerns |-> ListCell(<<"pores">>)]
    ELSE [product_type |-> "serum"]

\* json.loads(raw): whitespace around one JSON document is accepted, anything
\* else raises json.JSONDecodeError
json_loads(raw) ==
    LET doc == strip(raw)
    IN  IF Len(doc) = 1 /\ doc[1].t = "json"
        THEN [raised |-> FALSE, value |-> <<IntentPayload(doc[1].v)>>]
        ELSE [raised |-> TRUE, value |-> <<>>]

\* what a text service does with a request: it answers with a text or the call raises
ServiceAnswer(text) == [ok |-> TRUE, text |-> text]
ServiceError == [ok |-> FALSE, text |-> <<>>]

\* mutant of the Intent Normalizer: the request also carries catalog data
agent_parse_intent_with_catalog(query, answer) ==
    LET request == [kind |-> "intent", system |-> "system_prompt",
                    content |-> query \o <<Word(products[1].product_type)>>]
        raw0 == strip(answer.text)
        inside == split_fence(raw0)[2]
        raw == IF \E i \in DOMAIN raw0 : raw0[i] = Fence
               THEN IF inside # <<>> /\ Head(inside) = Word("json")
                    THEN strip(Tail(inside)) ELSE inside
               ELSE raw0
    IN  IF ~answer.ok THEN [raised |-> TRUE, value |-> <<>>, request |-> request]
        ELSE json_loads(raw) @@ [request |-> request]

\* app.py agent_parse_intent (the same code as in agents.py)
agent_parse_intent(query, answer) ==
    LET request == [kind |-> "intent", system |-> "system_prompt", content |-> query]
        raw0 == strip(answer.text)
        inside == split_fence(raw0)[2]
        raw == IF \E i \in DOMAIN raw0 : raw0[i] = Fence
               THEN IF inside # <<>> /\ Head(inside) = Word("json")
                    THEN strip(Tail(inside)) ELSE inside
               ELSE raw0
    IN  IF ~answer.ok THEN [raised |-> TRUE, value |-> <<>>, request |-> request]
        ELSE json_loads(raw) @@ [request |-> request]

----------------------------------------------------------------------------
(* The session (app.py): each action is one user interaction, that is the  *)
(* handler of the button followed by the rest of the script run.           *)

review_cache_key(selected_id, skin_type) == <<"review_summary", ToString(selected_id), skin_type>>
cross_msg_key(selected_id, customer_id) ==
    <<"cross_msg", ToString(selected_id), ToString(customer_id)>>

\* mutant of the invalidation: the cross-sell messages are kept
_clear_llm_caches_summaries_only(cache) ==
    [k \in {k \in DOMAIN cache : k[1] \notin {"review_summary"}} |-> cache[k]]

\* _clear_llm_caches applied to the cached texts
_clear_llm_caches(cache) ==
    [k \in {k \in DOMAIN cache : k[1] \notin {"review_summary", "cross_msg"}} |-> cache[k]]

\* filtered_reviews_df["review"].dropna().tolist()
review_texts_of(df) ==
    LET with_text == SelectSeq(df, LAMBDA r : r.review # <<>>)
    IN  [i \in DOMAIN with_text |-> with_text[i].review[1]]

\* app.py agent_summarize_reviews: the outcomes, [value, sent, raised]
agent_summarize_reviews(filtered_reviews_df, skin_type, metrics) ==
    LET review_texts == review_texts_of(filtered_reviews_df)
        request == [kind |-> "summary", skin_type |-> skin_type, metrics |-> metrics,
                    texts |-> review_texts]
    IN  IF review_texts = <<>>
        THEN {[value |-> <<>>, sent |-> <<>>, raised |-> FALSE]}
        ELSE {[value |-> <<"summary">>, sent |-> <<request>>, raised |-> FALSE],
              [value |-> <<>>, sent |-> <<request>>, raised |-> TRUE]}

\* app.py agent_recommend_cross_sell: the outcomes, [value, sent, raised]
agent_recommend_cross_sell(selected_product, cross_sell_df, customer) ==
    LET concerns == DictGet(customer, "skin_concerns", ListCell(<<>>))
        request == [kind |-> "cross_sell",
                    concerns |-> IF concerns.tag = "str" THEN json_loads_list(concerns.val)
                                 ELSE concerns.val,
                    selected |-> selected_product.product_name,
                    items |-> [i \in DOMAIN cross_sell_df |->
                                 <<cross_sell_df[i].product_name,
                                   cross_sell_df[i].product_type>>]]
    IN  {[value |-> <<"message">>, sent |-> <<request>>, raised |-> FALSE],
         [value |-> <<>>, sent |-> <<request>>, raised |-> TRUE]}

\* mutant of the result list: a select button for every product of the catalog
ListedIds_all(results) == [i \in DOMAIN products |-> products[i].product_id]

\* the product select buttons the run shows (app.py:502-554)
ListedIds(results) ==
    IF results = <<>> THEN <<>>
    ELSE [i \in DOMAIN results[1] |-> results[1][i].product_id]

\* mutant of the summary step: the cached entry is not looked up
SummaryStep_uncached(selected_id, skin_type, r, cache) ==
    LET key == review_cache_key(selected_id, skin_type)
    IN  IF r.metrics.total_reviews > 0
        THEN {[cache |-> IF o.raised THEN cache ELSE (key :> o.value) @@ cache,
               sent |-> o.sent, raised |-> o.raised] :
                 o \in agent_summarize_reviews(r.df, skin_type, r.metrics)}
        ELSE {[cache |-> (key :> <<>>) @@ cache, sent |-> <<>>, raised |-> FALSE]}

\* Micro-task 6 (app.py:601-613): the review summary, cached per (product, skin type)
SummaryStep(selected_id, skin_type, r, cache) ==
    LET key == review_cache_key(selected_id, skin_type)
    IN  IF key \in DOMAIN cache
        THEN {[cache |-> cache, sent |-> <<>>, raised |-> FALSE]}
        ELSE IF r.metrics.total_reviews > 0
        THEN {[cache |-> IF o.raised THEN cache ELSE (key :> o.value) @@ cache,
               sent |-> o.sent, raised |-> o.raised] :
                 o \in agent_summarize_reviews(r.df, skin_type, r.metrics)}
        ELSE {[cache |-> (key :> <<>>) @@ cache, sent |-> <<>>, raised |-> FALSE]}

\* Micro-tasks 8-9 (app.py:645-658): the cross-sell message, cached per (product, customer)
CrossStep(p, customer, cross_df, cache) ==
    LET key == cross_msg_key(p.product_id, customer.customer_id)
    IN  IF cross_df = <<>> \/ key \in DOMAIN cache
        THEN {[cache |-> cache, sent |-> <<>>, raised |-> FALSE]}
        ELSE {[cache |-> IF o.raised THEN cache ELSE (key :> o.value) @@ cache,
               sent |-> o.sent, raised |-> o.raised] :
                 o \in agent_recommend_cross_sell(p, cross_df, customer)}

\* The main view from the result list on (app.py:501-705), for the session
\* state the handlers have left: the outcomes [cache, sent, view].
Render(customer, results, selected, cache) ==
    LET listed == ListedIds(results)
        found == IF selected = <<>> THEN <<>>
                 ELSE SelectSeq(products, LAMBDA p : p.product_id = selected[1])
    IN  IF found = <<>>
        THEN {[cache |-> cache, sent |-> <<>>, view |-> [NoView EXCEPT !.listed = listed]]}
        ELSE
        LET p == found[1]
            selected_id == selected[1]
            skin_type == customer.base_skin_type
            r == app_system_get_same_skin_reviews(selected_id, skin_type)
            cross_df == system_get_cross_sell_products(selected_id, 2)
            shown == [NoView EXCEPT !.detail = TRUE, !.listed = listed,
                         !.product_id = selected_id, !.skin_type = skin_type,
                         !.metrics = r.metrics, !.df = r.df]
            after_summary(s) ==
                IF s.raised
                THEN {[cache |-> s.cache, sent |-> s.sent,
                       view |-> [shown EXCEPT !.error = "summary"]]}
                ELSE {[cache |-> c.cache, sent |-> s.sent \o c.sent,
                       view |-> [shown EXCEPT
                           !.summary = s.cache[review_cache_key(selected_id, skin_type)],
                           !.cart_button = TRUE,
                           !.cross_ids = IF c.raised THEN <<>>
                               ELSE [i \in DOMAIN cross_df |-> cross_df[i].product_id],
                           !.cross_msg = IF c.raised \/ cross_df = <<>> THEN <<>>
                               ELSE c.cache[cross_msg_key(selected_id, customer.customer_id)],
                           !.error = IF c.raised THEN "cross_sell" ELSE "none"]] :
                         c \in CrossStep(p, customer, cross_df, s.cache)}
        IN  UNION {after_summary(s) :
                      s \in SummaryStep(selected_id, skin_type, r, cache)}

----------------------------------------------------------------------------
(* The session specification: a catalog of three products, two customers   *)
(* of different skin types, and the interactions of one browser session.   *)

SessionCustomers ==
    << [customer_id |-> 1, base_skin_type |-> "dry", skin_concerns |-> ListCell(<<"pores">>)],
       [customer_id |-> 2, base_skin_type |-> "oily",
        skin_concerns |-> StrCell(JsonDumps(<<"pores">>))] >>

SessionProducts ==
    << [product_id |-> 1, product_name |-> "toner A", product_type |-> "toner",
        target_skin_types |-> ListCell(<<"dry", "oily">>),
        target_concerns |-> ListCell(<<"pores">>)],
       [product_id |-> 2, product_name |-> "serum B", product_type |-> "serum",
        target_skin_types |-> ListCell(<<"dry">>),
        target_concerns |-> ListCell(<<"pores">>)],
       [product_id |-> 3, product_name |-> "toner C", product_type |-> "toner",
        target_skin_types |-> ListCell(<<"oily">>),
        target_concerns |-> StrCell(JsonDumps(<<"pores", "acne_trouble">>))] >>

\* customer 1 reviewed product 1 MaxReviews times, the first body longer than
\* MAX_REVIEW_LEN; customer 2 rated product 1 without a body and reviewed product 3
SessionReviews ==
    [i \in 1..MaxReviews |->
        [review_id |-> i, product_id |-> 1, customer_id |-> 1, rate |-> Num(3 + (i % 3)),
         created_at |-> i,
         review |-> IF i = 1 THEN Body(MAX_REVIEW_LEN + 1) ELSE Body(i)]]
    \o << [review_id |-> MaxReviews + 1, product_id |-> 1, customer_id |-> 2,
           rate |-> Num(4), created_at |-> MaxReviews + 1, review |-> <<>>],
          [review_id |-> MaxReviews + 2, product_id |-> 3, customer_id |-> 2,
           rate |-> Num(5), created_at |-> MaxReviews + 2, review |-> Body(2)] >>

SessionLogs ==
    << [customer_id |-> 1, product_id |-> 1, action_type |-> "purchase"],
       [customer_id |-> 2, product_id |-> 1, action_type |-> "purchase"],
       [customer_id |-> 2, product_id |-> 3, action_type |-> "purchase"],
       [customer_id |-> 1, product_id |-> 2, action_type |-> "view"] >>

\* what the user may type in the search box
Queries ==
    { <<>>, <<SP>>, <<Word("toner")>>, <<SP, Word("toner")>>, <<Word("pores")>> }

\* what the intent service may do with a request
IntentAnswers ==
    { ServiceAnswer(<<Json("toner")>>),
      ServiceAnswer(<<Fence, Word("json"), NL, Json("pores"), NL, Fence>>),
      ServiceAnswer(<<Fence, NL, Json("toner"), NL, Fence, NL>>),
      ServiceAnswer(<<Json("serum")>>),
      ServiceAnswer(<<Word("sorry"), SP, Json("toner")>>),
      ServiceError }

Init ==
    /\ customers = SessionCustomers
    /\ products = SessionProducts
    /\ reviews = SessionReviews
    /\ logs = SessionLogs
    /\ pc = "session"
    /\ call = <<>>
    /\ ret = <<>>
    /\ SessionInit

\* the rest of a script run after the handlers (app.py:399-705)
RenderMain(customer, results, selected, cache, already_sent, note) ==
    IF customer = <<>>
    THEN /\ llm_cache' = cache
         /\ sent' = already_sent
         /\ view' = [NoView EXCEPT !.error = note]
    ELSE \E o \in Render(customer[1], results, selected, cache) :
            /\ llm_cache' = o.cache
            /\ sent' = already_sent \o o.sent
            /\ view' = IF o.view.error = "none" THEN [o.view EXCEPT !.error = note]
                       ELSE o.view

\* the login button (app.py:368-384), pressed with customer cid chosen
Login(cid) ==
    LET matched == SelectSeq(customers, LAMBDA c : c.customer_id = cid)
    IN  /\ matched # <<>>
        /\ current_customer' = <<matched[1]>>
        /\ search_results' = <<>>
        /\ selected_product_id' = <<>>
        /\ parsed_params' = <<>>
        /\ last_search_query' = <<>>
        /\ cart_added' = {}
        /\ RenderMain(<<matched[1]>>, <<>>, <<>>, _clear_llm_caches(llm_cache), <<>>, "none")
        /\ UNCHANGED <<dataset, pc, call, ret>>

\* mutant of the logout: the cart and the last query are kept
Logout_keeps_cart ==
    /\ current_customer # <<>>
    /\ current_customer' = <<>>
    /\ search_results' = <<>>
    /\ selected_product_id' = <<>>
    /\ parsed_params' = <<>>
    /\ RenderMain(<<>>, <<>>, <<>>, _clear_llm_caches(llm_cache), <<>>, "none")
    /\ UNCHANGED <<dataset, pc, call, ret, last_search_query, cart_added>>

\* the logout button (app.py:387-396) and the rerun it asks for
Logout ==
    /\ current_customer # <<>>
    /\ current_customer' = <<>>
    /\ search_results' = <<>>
    /\ selected_product_id' = <<>>
    /\ parsed_params' = <<>>
    /\ last_search_query' = <<>>
    /\ cart_added' = {}
    /\ RenderMain(<<>>, <<>>, <<>>, _clear_llm_caches(llm_cache), <<>>, "none")
    /\ UNCHANGED <<dataset, pc, call, ret>>

\* mutant of the search button: a failed parse is replaced by an unfiltered search
Search_unfiltered_on_failure(search_query, answer) ==
    /\ current_customer # <<>>
    /\ IF strip(search_query) = <<>>
       THEN /\ RenderMain(current_customer, search_results, selected_product_id,
                          llm_cache, <<>>, "empty_query")
            /\ UNCHANGED <<search_results, selected_product_id, parsed_params,
                           last_search_query, cart_added>>
       ELSE LET new_query == strip(search_query)
                fresh == new_query # last_search_query
                cache == IF fresh THEN _clear_llm_caches(llm_cache) ELSE llm_cache
                parsed == agent_parse_intent(new_query, answer)
            IN  /\ last_search_query' = new_query
                /\ cart_added' = IF fresh THEN {} ELSE cart_added
                /\ IF parsed.raised
                   THEN /\ parsed_params' = <<>>
                        /\ llm_cache' = cache
                        /\ sent' = <<parsed.request>>
                        /\ view' = [NoView EXCEPT !.error = "parse"]
                        /\ search_results' = <<products>>
                        /\ selected_product_id' = <<>>
                   ELSE LET filtered == app_system_filter_products(parsed.value[1],
                                                                   current_customer[1])
                        IN  /\ parsed_params' = parsed.value
                            /\ search_results' = <<filtered>>
                            /\ selected_product_id' = <<>>
                            /\ RenderMain(current_customer, <<filtered>>, <<>>, cache,
                                          <<parsed.request>>, "none")
    /\ UNCHANGED <<dataset, pc, call, ret, current_customer>>

\* the search button (app.py:455-482), pressed with search_query typed and
\* the intent service doing answer
Search(search_query, answer) ==
    /\ current_customer # <<>>
    /\ IF strip(search_query) = <<>>
       THEN /\ RenderMain(current_customer, search_results, selected_product_id,
                          llm_cache, <<>>, "empty_query")
            /\ UNCHANGED <<search_results, selected_product_id, parsed_params,
                           last_search_query, cart_added>>
       ELSE LET new_query == strip(search_query)
                fresh == new_query # last_search_query
                cache == IF fresh THEN _clear_llm_caches(llm_cache) ELSE llm_cache
                parsed == agent_parse_intent(new_query, answer)
            IN  /\ last_search_query' = new_query
                /\ cart_added' = IF fresh THEN {} ELSE cart_added
                /\ IF parsed.raised
                   THEN /\ parsed_params' = <<>>
                        /\ llm_cache' = cache
                        /\ sent' = <<parsed.request>>
                        /\ view' = [NoView EXCEPT !.error = "parse"]
                        /\ UNCHANGED <<search_results, selected_product_id>>
                   ELSE LET filtered == app_system_filter_products(parsed.value[1],
                                                                   current_customer[1])
                        IN  /\ parsed_params' = parsed.value
                            /\ search_results' = <<filtered>>
                            /\ selected_product_id' = <<>>
                            /\ RenderMain(current_customer, <<filtered>>, <<>>, cache,
                                          <<parsed.request>>, "none")
    /\ UNCHANGED <<dataset, pc, call, ret, current_customer>>

\* a select button of the result list (_cb_select_product, app.py:334-336)
SelectProduct(pid) ==
    /\ IsIn(pid, view.listed)
    /\ selected_product_id' = <<pid>>
    /\ RenderMain(current_customer, search_results, <<pid>>, llm_cache, <<>>, "none")
    /\ UNCHANGED <<dataset, pc, call, ret, current_customer, search_results,
                   parsed_params, last_search_query, cart_added>>

\* an enabled cart button of the detail view (_cb_add_to_cart, app.py:339-342)
AddToCart(pid) ==
    /\ \/ view.cart_button /\ pid = view.product_id
       \/ IsIn(pid, view.cross_ids)
    /\ pid \notin cart_added
    /\ cart_added' = cart_added \cup {pid}
    /\ RenderMain(current_customer, search_results, selected_product_id, llm_cache,
                  <<>>, "none")
    /\ UNCHANGED <<dataset, pc, call, ret, current_customer, search_results,
                   selected_product_id, parsed_params, last_search_query>>

\* any other interaction: the script runs again with no button pressed
Rerun ==
    /\ RenderMain(current_customer, search_results, selected_product_id, llm_cache,
                  <<>>, "none")
    /\ UNCHANGED <<dataset, pc, call, ret, current_customer, search_results,
                   selected_product_id, parsed_params, last_search_query, cart_added>>

Next ==
    \/ \E cid \in 1..Len(SessionCustomers) : Login(cid)
    \/ Logout
    \/ \E search_query \in Queries, answer \in IntentAnswers : Search(search_query, answer)
    \/ \E pid \in 1..Len(SessionProducts) : SelectProduct(pid)
    \/ \E pid \in 1..Len(SessionProducts) : AddToCart(pid)
    \/ Rerun

Spec == Init /\ [][Next]_vars

\* the requests of the last script run to the review-summarization service
SummaryRequests == {i \in DOMAIN sent : sent[i].kind = "summary"}

\* C8 (as claimed): every request sent to the review-summarization service
\* holds at most MAX_SAMPLE review texts, each of at most MAX_REVIEW_LEN
\* characters of body plus the ellipsis, whatever the number and length of
\* the reviews of the cohort.
C8_SummaryRequestBounded ==
    \A i \in SummaryRequests :
        /\ Len(sent[i].texts) <= MAX_SAMPLE
        /\ \A j \in DOMAIN sent[i].texts :
              Len(sent[i].texts[j]) <= MAX_REVIEW_LEN + Len(Ellipsis)

\* the rows of the reviews table in the cohort-filtered set of (product, skin type)
SessionCohort(product_id, skin_type) ==
    {i \in DOMAIN reviews :
        /\ reviews[i].product_id = product_id
        /\ \E c \in SeqToSet(customers) :
              c.customer_id = reviews[i].customer_id /\ c.base_skin_type = skin_type}

ZeroMetrics == [total_reviews |-> 0, avg_rate |-> Num(0), satisfaction_pct |-> Num(0)]

\* C9: when the cohort-filtered review set of (product, skin type) is empty,
\* the metrics are total_reviews = 0, avg_rate = 0.0, satisfaction_pct = 0.0
\* and the sample is empty (in the detail view shown and in the sampler of
\* logic.py alike), and no request goes to the review-summarization service
\* for a (product, skin type) pair whose total_reviews is 0.
C9_EmptyCohortNoSummary ==
    /\ \A p \in SeqToSet(products), c \in SeqToSet(customers) :
          SessionCohort(p.product_id, c.base_skin_type) = {}
          => \A r \in system_get_same_skin_reviews(p.product_id, c.base_skin_type) :
                r.metrics = ZeroMetrics /\ r.df = <<>>
    /\ (view.detail /\ SessionCohort(view.product_id, view.skin_type) = {})
          => view.metrics = ZeroMetrics /\ view.df = <<>>
    /\ \A i \in SummaryRequests :
          /\ sent[i].metrics.total_reviews > 0
          /\ SessionCohort(view.product_id, sent[i].skin_type) # {}

\* the detail view of a product with an empty cohort has been rendered: the
\* summary is cached as absent and no request was sent
C9_Witness ==
    /\ view.detail
    /\ SessionCohort(view.product_id, view.skin_type) = {}
    /\ review_cache_key(view.product_id, view.skin_type) \in DOMAIN llm_cache
    /\ llm_cache[review_cache_key(view.product_id, view.skin_type)] = <<>>
    /\ SummaryRequests = {}

----------------------------------------------------------------------------
(* Co-purchase Ranker: size and contents of the result (under SpecRank)    *)

\* C11: for every product and topN the result of the ranker has at most topN
\* products, never contains the selected product, contains only products with
\* a "purchase" entry by a customer who also has a "purchase" entry for the
\* selected product, and is empty when the selected product has no buyers or
\* its buyers bought nothing else.
C11_RankResultContents ==
    pc = "rank" =>
        /\ Len(ret) <= call.top_n
        /\ \A i \in DOMAIN ret :
              /\ ret[i].product_id # call.selected_id
              /\ CoPurchaseCount(ret[i].product_id) > 0
        /\ (\/ Buyers = {}
            \/ \A i \in DOMAIN logs :
                  (logs[i].action_type = "purchase" /\ logs[i].customer_id \in Buyers)
                  => logs[i].product_id = call.selected_id)
           => ret = <<>>

\* the ranker has cut the co-purchased products down to topN
C11_Witness ==
    /\ pc = "rank"
    /\ Len(ret) = call.top_n
    /\ \E k \in DOMAIN products :
          /\ CoPurchaseCount(products[k].product_id) > 0
          /\ \A i \in DOMAIN ret : ret[i].product_id # products[k].product_id

----------------------------------------------------------------------------
(* The Intent Normalizer as a function: agent_parse_intent applied to a    *)
(* query and to what the service does, under several datasets and sessions. *)

\* the language tags a fenced answer may carry after the opening fence (none
\* of the words other than "json" starts with "json")
FenceTags == { <<>>, <<Word("json")>>, <<Word("python")>>, <<Word("JSON")>> }

\* the documents the service may answer with: JSON objects (two of them
\* omitting a key) and a text that is not JSON
IntentDocuments ==
    { Json("toner"), Json("pores"), Json("serum"), Json("concerns_only"), Word("sorry") }

\* a document wrapped in a fenced code block
Fenced(tag, document) == <<Fence>> \o tag \o <<NL, document, NL, Fence>>

IntentCalls ==
    { [query |-> q, fenced |-> FALSE, tag |-> <<>>, document |-> d,
       answer |-> ServiceAnswer(<<d>>)] : q \in Queries, d \in IntentDocuments }
    \cup
    { [query |-> q, fenced |-> TRUE, tag |-> t, document |-> d,
       answer |-> ServiceAnswer(Fenced(t, d))] :
          q \in Queries, t \in FenceTags, d \in IntentDocuments }
    \cup
    { [query |-> q, fenced |-> FALSE, tag |-> <<>>, document |-> Word("sorry"),
       answer |-> ServiceError] : q \in Queries }

InitIntent ==
    /\ customers = SessionCustomers
    /\ products \in {SessionProducts, CatalogInOrder(<<3, 2, 1>>)}
    /\ reviews \in {<<>>, SessionReviews}
    /\ logs = SessionLogs
    /\ pc = "call"
    /\ call = <<>>
    /\ ret = <<>>
    /\ current_customer \in {<<>>} \cup {<<SessionCustomers[i]>> : i \in DOMAIN SessionCustomers}
    /\ search_results = <<>>
    /\ selected_product_id = <<>>
    /\ parsed_params = <<>>
    /\ last_search_query = <<>>
    /\ cart_added = {}
    /\ llm_cache = EmptyCache
    /\ sent = <<>>
    /\ view = NoView

\* agent_parse_intent(query), the service doing answer
CallParseIntent ==
    /\ pc = "call"
    /\ \E c \in IntentCalls :
         /\ call' = c
         /\ ret' = agent_parse_intent(c.query, c.answer)
    /\ pc' = "intent"
    /\ UNCHANGED <<dataset, session>>

SpecIntent == InitIntent /\ [][CallParseIntent]_vars

\* the keys an intent must have
RequiredKeys == {"product_type", "concerns"}

\* the document of the call is a JSON object with every required key
ValidIntentDocument ==
    /\ call.document.t = "json"
    /\ RequiredKeys \subseteq DOMAIN IntentPayload(call.document.v)

\* C12 (as claimed): whenever the output of the service, after fence
\* unwrapping, is not valid JSON or is valid JSON that omits a required key
\* (product_type or concerns), the Intent Normalizer fails and returns no intent.
C12_ParseErrorOnBadOutput ==
    (pc = "intent" /\ call.answer.ok /\ ~ValidIntentDocument)
        => ret.raised /\ ret.value = <<>>

\* C13 (as claimed): for every valid intent JSON object, an answer that wraps
\* it in a fenced code block, with or without a language tag after the opening
\* fence, whatever the tag, is parsed to the same intent as the bare object.
C13_FencedSameAsBare ==
    (pc = "intent" /\ call.answer.ok /\ call.fenced /\ ValidIntentDocument)
        => /\ ~ret.raised
           /\ ret.value = agent_parse_intent(call.query,
                                             ServiceAnswer(<<call.document>>)).value

\* C14: the request sent to the intent-extraction service is the fixed
\* instruction plus the query of the call and nothing else, whatever the
\* catalog, the customers, the reviews, the logs and the session are.
C14_RequestFromQueryOnly ==
    pc = "intent" =>
        ret.request = [kind |-> "intent", system |-> "system_prompt", content |-> call.query]

\* a request went out while a customer was logged in over a catalog with reviews
C14_Witness ==
    /\ pc = "intent"
    /\ ret.request.content = <<Word("toner")>>
    /\ current_customer # <<>>
    /\ reviews # <<>>
    /\ products = SessionProducts

----------------------------------------------------------------------------
(* The session: failures of the generation services (under Spec)           *)

\* the ids of the cross-sell products of the product in the detail view
CrossIdsOfView ==
    LET cross_df == system_get_cross_sell_products(view.product_id, 2)
    IN  [i \in DOMAIN cross_df |-> cross_df[i].product_id]

\* C15 (as claimed): when the review-summarization call or the cross-sell
\* message call fails, the detail view still completes, showing the state
\* without summary or without message (the cart button and the cross-sell
\* products are there), and the current customer, the search results and the
\* selected product are the ones the view was rendered for.
C15_GenerationFailureNotFatal ==
    view.error \in {"summary", "cross_sell"} =>
        /\ view.detail
        /\ view.cart_button
        /\ view.cross_ids = CrossIdsOfView
        /\ current_customer # <<>>
        /\ search_results # <<>>
        /\ selected_product_id = <<view.product_id>>

----------------------------------------------------------------------------
(* The session: the cache of generated texts (under Spec)                  *)

\* the intent requests of the last script run: the run handled a search
IntentRequests == {i \in DOMAIN sent : sent[i].kind = "intent"}

\* st.session_state as one dictionary: the cached texts and the core entries
SessionState ==
    llm_cache @@ (<<"current_customer">> :> current_customer)
              @@ (<<"search_results">> :> search_results)
              @@ (<<"selected_product_id">> :> selected_product_id)

CoreKeys == {<<"current_customer">>, <<"search_results">>, <<"selected_product_id">>}

\* C16: the cache of generated texts is invalidated by a new search query and
\* by a login or logout: after a search whose (stripped) query differs from
\* last_search_query, and after every login or logout, no review_summary or
\* cross_msg entry remains; a search with the same query as last_search_query
\* leaves every cached entry as it was; and clearing the cache never changes
\* current_customer, search_results or selected_product_id.
C16_CacheInvalidation ==
    [][ /\ (\E i \in IntentRequests' : sent'[i].content # last_search_query)
            => DOMAIN llm_cache' = {}
        /\ (current_customer' # current_customer) => DOMAIN llm_cache' = {}
        /\ (current_customer' # <<>> /\ search_results' = <<>> /\ search_results # <<>>)
            => DOMAIN llm_cache' = {}
        /\ (\E i \in IntentRequests' : sent'[i].content = last_search_query)
            => llm_cache' = llm_cache
        /\ \A k \in CoreKeys :
              /\ k \in DOMAIN _clear_llm_caches(SessionState)
              /\ _clear_llm_caches(SessionState)[k] = SessionState[k]
        /\ DOMAIN _clear_llm_caches(SessionState) = CoreKeys
      ]_vars

\* a search with the query of the search before has run over a cache that
\* holds a summary and a cross-sell message
C16_Witness ==
    /\ IntentRequests # {}
    /\ \E k \in DOMAIN llm_cache : k[1] = "review_summary"
    /\ \E k \in DOMAIN llm_cache : k[1] = "cross_msg"

\* the requests of the last script run to the cross-sell generation service
CrossRequests == {i \in DOMAIN sent : sent[i].kind = "cross_sell"}

----------------------------------------------------------------------------
(* The session: selection and login state (under Spec)                     *)

\* the ids of the products of the stored search results
StoredResultIds(results) ==
    IF results = <<>> THEN {}
    ELSE {results[1][i].product_id : i \in DOMAIN results[1]}

SelectionInResults ==
    selected_product_id # <<>> =>
        /\ search_results # <<>>
        /\ selected_product_id[1] \in StoredResultIds(search_results)

\* C18: in every reachable state, if selected_product_id is not None then
\* search_results is not None and holds a product with that id; a product is
\* only ever selected from the stored search results; and every successful
\* search, login and logout resets the selection to None.
C18_SelectionFromResults ==
    [][ /\ SelectionInResults
        /\ SelectionInResults'
        /\ (selected_product_id' # <<>> /\ selected_product_id' # selected_product_id)
              => /\ selected_product_id'[1] \in StoredResultIds(search_results)
                 /\ search_results' = search_results
        /\ (IntentRequests' # {} /\ view'.error # "parse") => selected_product_id' = <<>>
        /\ (current_customer' # current_customer) => selected_product_id' = <<>>
        /\ (search_results' = <<>>) => selected_product_id' = <<>>
      ]_vars

\* a product of a result list of two products is selected and shown
C18_Witness ==
    /\ selected_product_id # <<>>
    /\ view.detail
    /\ view.product_id = selected_product_id[1]
    /\ Cardinality(StoredResultIds(search_results)) > 1

LoggedOutClean ==
    current_customer = <<>> =>
        /\ search_results = <<>>
        /\ selected_product_id = <<>>
        /\ parsed_params = <<>>
        /\ last_search_query = <<>>
        /\ cart_added = {}
        /\ DOMAIN llm_cache = {}
        /\ view.listed = <<>>
        /\ ~view.cart_button
        /\ view.cross_ids = <<>>

\* C19: in every reachable state with no customer logged in, search_results,
\* selected_product_id and parsed_params are None, last_search_query is
\* empty, the cart is empty and no review_summary or cross_msg entry exists;
\* and from such a state nothing but a login changes the session.
C19_LoggedOutClean ==
    [][ /\ LoggedOutClean
        /\ LoggedOutClean'
        /\ current_customer = <<>> =>
              \/ current_customer' # <<>>
              \/ UNCHANGED <<search_results, selected_product_id, parsed_params,
                             last_search_query, cart_added, llm_cache>>
      ]_vars

\* the logged-out session: nothing to select, nothing to add to the cart
C19_Witness ==
    /\ current_customer = <<>>
    /\ view = NoView
    /\ sent = <<>>
    /\ cart_added = {}
    /\ last_search_query = <<>>

\* C20: a search whose intent parsing fails performs no filtering: it sets
\* parsed_params to None and leaves search_results and selected_product_id
\* exactly as they were, so the results of the search before stay stored; the
\* parse is requested once, not retried, and nothing else is requested.
C20_FailedSearchKeepsResults ==
    [][ (IntentRequests' # {} /\ view'.error = "parse")
            => /\ parsed_params' = <<>>
               /\ search_results' = search_results
               /\ selected_product_id' = selected_product_id
               /\ Len(sent') = 1
      ]_vars

\* a parse has failed after a search that had stored results and a selection
C20_Witness ==
    /\ view.error = "parse"
    /\ IntentRequests # {}
    /\ parsed_params = <<>>
    /\ search_results # <<>>
    /\ selected_product_id # <<>>

====
